---- MODULE Spec2Model ----
(***************************************************************************)
(* Model of WeChatApi.get_unifiedorder (src/wego/wechat.py) and of the     *)
(* helpers it calls: _get_random_code, _check_unifiedorder_params,         *)
(* _make_sign, _make_xml and _analysis_xml.                                *)
(*                                                                         *)
(* Text is a sequence of one-character strings, so that formatting,        *)
(* sorting, serialisation and the regular-expression scan are computed     *)
(* character by character, as the code computes them.                      *)
(***************************************************************************)
EXTENDS Integers, Sequences, FiniteSets, TLC

VARIABLES settings, global_access_token, order_info, pc, nonce, data, error,
          hashed, xml, posts, response, result,
          sg_data, sg_keys, sg_secret, sg_hashed, sg_sign,
          ax_leaves, ax_xml, ax_result, ax_done

vars == <<settings, global_access_token, order_info, pc, nonce, data, error,
          hashed, xml, posts, response, result,
          sg_data, sg_keys, sg_secret, sg_hashed, sg_sign,
          ax_leaves, ax_xml, ax_result, ax_done>>

orderVars == <<settings, global_access_token, order_info, pc, nonce, data, error,
               hashed, xml, posts, response, result>>
signVars == <<sg_data, sg_keys, sg_secret, sg_hashed, sg_sign>>
parseVars == <<ax_leaves, ax_xml, ax_result, ax_done>>

(***************************************************************************)
(* Bounds of the model.                                                    *)
(***************************************************************************)
\* Length of the nonce drawn by _get_random_code (32 in the source, line 177).
NonceLen == 1
\* Number of keys in which a caller's order_info differs from a base mapping.
MaxEdits == 1
\* Number of leaf elements of a response document.
MaxLeaves == 2

(***************************************************************************)
(* Text.                                                                   *)
(***************************************************************************)
\* The characters of the model in ascending byte order (Python 2 compares
\* str values byte by byte); the non-ASCII character sorts after all ASCII.
CharOrder ==
    <<"\n", "!", "&", "(", ")", "-", "/", "0", "1", "2", "3", "4", "5", "6", "7",
      "8", "9", "<", "=", ">", "A", "B", "C", "D", "E", "F", "G", "H", "I", "J",
      "K", "L", "M", "N", "O", "P", "Q", "R", "S", "T", "U", "V", "W", "X", "Y",
      "Z", "[", "]", "_", "a", "b", "c", "d", "e", "f", "g", "h", "i", "j", "k",
      "l", "m", "n", "o", "p", "q", "r", "s", "t", "u", "v", "w", "x", "y", "z",
      "é">>

Ord(c) == CHOOSE i \in DOMAIN CharOrder : CharOrder[i] = c

\* a < b for two str values.
RECURSIVE StrLess(_, _)
StrLess(a, b) ==
    IF a = <<>> THEN b # <<>>
    ELSE IF b = <<>> THEN FALSE
    ELSE IF a[1] = b[1] THEN StrLess(Tail(a), Tail(b))
    ELSE Ord(a[1]) < Ord(b[1])

\* sorted(seq) for a list of str values.
RECURSIVE InsertSorted(_, _)
InsertSorted(x, s) ==
    IF s = <<>> THEN <<x>>
    ELSE IF StrLess(s[1], x) THEN <<s[1]>> \o InsertSorted(x, Tail(s))
    ELSE <<x>> \o s

RECURSIVE sorted(_)
sorted(s) == IF s = <<>> THEN <<>> ELSE InsertSorted(s[1], sorted(Tail(s)))

\* sep.join(parts)
RECURSIVE join(_, _)
join(sep, parts) ==
    IF parts = <<>> THEN <<>>
    ELSE IF Len(parts) = 1 THEN parts[1]
    ELSE parts[1] \o sep \o join(sep, Tail(parts))

Reverse(s) == [i \in 1..Len(s) |-> s[Len(s) + 1 - i]]

(***************************************************************************)
(* Values of a mapping: str, int or None.  One record shape for the three, *)
(* so that values of different types can be compared: a str 1 and an       *)
(* int 1 are different values.                                             *)
(***************************************************************************)
SV(s) == [t |-> "str", s |-> s, n |-> 0]
IV(n) == [t |-> "int", s |-> <<>>, n |-> n]
None == [t |-> "none", s |-> <<>>, n |-> 0]

Digit(d) == <<CharOrder[Ord("0") + d]>>

\* str(n) for an int.
RECURSIVE DecStr(_)
DecStr(n) ==
    IF n < 0 THEN <<"-">> \o DecStr(0 - n)
    ELSE IF n < 10 THEN Digit(n)
    ELSE DecStr(n \div 10) \o Digit(n % 10)

\* '%s' % v
Fmt(v) ==
    IF v.t = "str" THEN v.s
    ELSE IF v.t = "int" THEN DecStr(v.n)
    ELSE <<"N", "o", "n", "e">>

\* bool(v): the empty str, 0 and None are falsy.
Truthy(v) ==
    IF v.t = "str" THEN v.s # <<>>
    ELSE IF v.t = "int" THEN v.n # 0
    ELSE FALSE

(***************************************************************************)
(* Keys.                                                                   *)
(***************************************************************************)
K_appid == <<"a", "p", "p", "i", "d">>
K_mch_id == <<"m", "c", "h", "_", "i", "d">>
K_nonce_str == <<"n", "o", "n", "c", "e", "_", "s", "t", "r">>
K_body == <<"b", "o", "d", "y">>
K_out_trade_no == <<"o", "u", "t", "_", "t", "r", "a", "d", "e", "_", "n", "o">>
K_total_fee == <<"t", "o", "t", "a", "l", "_", "f", "e", "e">>
K_spbill_create_ip ==
    <<"s", "p", "b", "i", "l", "l", "_", "c", "r", "e", "a", "t", "e", "_", "i", "p">>
K_notify_url == <<"n", "o", "t", "i", "f", "y", "_", "u", "r", "l">>
K_trade_type == <<"t", "r", "a", "d", "e", "_", "t", "y", "p", "e">>
K_sign == <<"s", "i", "g", "n">>
K_attach == <<"a", "t", "t", "a", "c", "h">>
K_xml == <<"x", "m", "l">>

\* The empty dict.
EmptyDict == [k \in {} |-> None]

\* dict(a, **b): the entries of a, replaced and extended by those of b.
dict(a, b) ==
    [k \in (DOMAIN a) \cup (DOMAIN b) |-> IF k \in DOMAIN b THEN b[k] ELSE a[k]]

\* d[k] = v on a copy of d.
SetItem(d, k, v) == [x \in (DOMAIN d) \cup {k} |-> IF x = k THEN v ELSE d[x]]

\* del d[k] on a copy of d.
DelItem(d, k) == [x \in (DOMAIN d) \ {k} |-> d[x]]

\* Some order of the elements of a set.
RECURSIVE SetToSeq(_)
SetToSeq(S) ==
    IF S = {} THEN <<>>
    ELSE LET x == CHOOSE y \in S : TRUE IN <<x>> \o SetToSeq(S \ {x})

\* The orders in which a dict's keys are iterated: Python 2 promises none;
\* the model draws from one order and its reverse.
IterOrders(d) == {SetToSeq(DOMAIN d), Reverse(SetToSeq(DOMAIN d))}

(***************************************************************************)
(* _get_random_code                                                        *)
(***************************************************************************)
\* The characters a nonce is drawn from: string.printable[:62] in the source,
\* here two of them.
NonceChars == {"0", "z"}

\* The results _get_random_code can return: NonceLen independent draws.
_get_random_code == [1..NonceLen -> NonceChars]

(***************************************************************************)
(* _check_unifiedorder_params                                              *)
(***************************************************************************)
required_list ==
    <<K_appid, K_mch_id, K_nonce_str, K_body, K_out_trade_no, K_total_fee,
      K_spbill_create_ip, K_notify_url, K_trade_type>>

\* The loop from index i on: the first name that is not in params or whose
\* value is falsy, for which WeChatApiError is raised; <<>> when the loop ends
\* without raising.
RECURSIVE CheckFrom(_, _)
CheckFrom(params, i) ==
    IF i > Len(required_list) THEN <<>>
    ELSE IF required_list[i] \notin DOMAIN params \/ ~Truthy(params[required_list[i]])
         THEN required_list[i]
         ELSE CheckFrom(params, i + 1)

\* Faulty variant: only the absence of a key is detected, not a falsy value.
RECURSIVE CheckFromAbsentOnly(_, _)
CheckFromAbsentOnly(params, i) ==
    IF i > Len(required_list) THEN <<>>
    ELSE IF required_list[i] \notin DOMAIN params
         THEN required_list[i]
         ELSE CheckFromAbsentOnly(params, i + 1)

_check_unifiedorder_params_absent_only(params) == CheckFromAbsentOnly(params, 1)

_check_unifiedorder_params(params) == CheckFrom(params, 1)

(***************************************************************************)
(* _make_sign                                                              *)
(***************************************************************************)
\* Faulty variant: the keys are taken in the order the dict iterates them.
SignStringUnsorted(d, ks, secret) ==
    join(<<"&">>,
         [i \in 1..Len(ks) |-> ks[i] \o <<"=">> \o Fmt(d[ks[i]])]
            \o << <<"k", "e", "y", "=">> \o secret >>)

\* Lines 184-186: the text handed to md5.update.  ks is data.keys(), in the
\* order the dict iterates them.
SignString(d, ks, secret) ==
    LET sk == sorted(ks)
        temp == [i \in 1..Len(sk) |-> sk[i] \o <<"=">> \o Fmt(d[sk[i]])]
    IN join(<<"&">>, temp \o << <<"k", "e", "y", "=">> \o secret >>)

\* md5(text).hexdigest().upper(): the digest is a term over the hashed text,
\* distinct texts giving distinct digests (MD5 taken as collision-free).
md5_hexdigest_upper(text) == <<"M", "D", "5", "(">> \o text \o <<")">>

_make_sign(d, ks, secret) == md5_hexdigest_upper(SignString(d, ks, secret))

(***************************************************************************)
(* _make_xml                                                               *)
(***************************************************************************)
Open(k) == <<"<">> \o k \o <<">">>
Close(k) == <<"<", "/">> \o k \o <<">">>

\* _make_xml(k, v) for a scalar v: a falsy v takes the branch `if not v`,
\* which makes the key the content and 'xml' the tag.
_make_xml(k, v) ==
    IF ~Truthy(v) THEN Open(K_xml) \o k \o Close(K_xml)
    ELSE Open(k) \o Fmt(v) \o Close(k)

\* _make_xml(d) for a dict d: v is None, so v = d and k = 'xml'; the children
\* are joined in the order it of d.iteritems().
_make_xml_dict(d, it) ==
    Open(K_xml) \o join(<<>>, [i \in 1..Len(it) |-> _make_xml(it[i], d[it[i]])])
        \o Close(K_xml)

(***************************************************************************)
(* _analysis_xml                                                           *)
(***************************************************************************)
\* `.` matches any character but a newline.
Dot(c) == c # "\n"

\* The literal lit stands at position p of s.
Lit(s, p, lit) ==
    /\ p + Len(lit) - 1 <= Len(s)
    /\ \A i \in 1..Len(lit) : s[p + i - 1] = lit[i]

CDataOpen == <<">", "<", "!", "[", "C", "D", "A", "T", "A", "[">>
CDataClose == <<"]", "]", ">", "<", "/">>

\* (.*?)\> from p: the position of the first ">" reached over `.` characters,
\* 0 when there is none.
RECURSIVE MatchTag(_, _)
MatchTag(s, j) ==
    IF j > Len(s) THEN 0
    ELSE IF s[j] = ">" THEN j
    ELSE IF Dot(s[j]) THEN MatchTag(s, j + 1)
    ELSE 0

\* (.*?)\]\]\>\<\/(.*?)\> from p: the least end of the lazy value group for
\* which the rest of the pattern matches, 0 when there is none.
RECURSIVE MatchVal(_, _)
MatchVal(s, j) ==
    IF j > Len(s) THEN 0
    ELSE IF Lit(s, j, CDataClose) /\ MatchTag(s, j + Len(CDataClose)) # 0 THEN j
    ELSE IF Dot(s[j]) THEN MatchVal(s, j + 1)
    ELSE 0

\* .*?\>\<\!\[CDATA\[ ... from p: the least end of the lazy opening group
\* for which the rest of the pattern matches, 0 when there is none.
RECURSIVE MatchOpen(_, _)
MatchOpen(s, j) ==
    IF j > Len(s) THEN 0
    ELSE IF Lit(s, j, CDataOpen) /\ MatchVal(s, j + Len(CDataOpen)) # 0 THEN j
    ELSE IF Dot(s[j]) THEN MatchOpen(s, j + 1)
    ELSE 0

\* The match of the whole pattern that starts at position p, if any.
MatchAt(s, p) ==
    IF s[p] # "<" \/ MatchOpen(s, p + 1) = 0 THEN [ok |-> FALSE]
    ELSE LET v0 == MatchOpen(s, p + 1) + Len(CDataOpen)
             v1 == MatchVal(s, v0)
             k0 == v1 + Len(CDataClose)
             k1 == MatchTag(s, k0)
         IN [ok |-> TRUE, v |-> SubSeq(s, v0, v1 - 1), k |-> SubSeq(s, k0, k1 - 1),
             end |-> k1 + 1]

\* re.findall(pattern, s) from position p: the (value, tag) groups of the
\* non-overlapping matches, leftmost first.
RECURSIVE findall(_, _)
findall(s, p) ==
    IF p > Len(s) THEN <<>>
    ELSE LET m == MatchAt(s, p)
         IN IF m.ok THEN << <<m.v, m.k>> >> \o findall(s, m.end)
            ELSE findall(s, p + 1)

\* {k: v for v, k in pairs}: a later pair replaces an earlier one of its key.
DictOfPairs(pairs) ==
    [k \in {pairs[i][2] : i \in 1..Len(pairs)} |->
        pairs[CHOOSE i \in 1..Len(pairs) :
                  /\ pairs[i][2] = k
                  /\ \A j \in (i + 1)..Len(pairs) : pairs[j][2] # k][1]]

_analysis_xml(s) == DictOfPairs(findall(s, 1))

(***************************************************************************)
(* get_unifiedorder, statement by statement.                               *)
(***************************************************************************)
APP_ID == <<"w", "x">>
MCH_ID == <<"1", "0">>
MCH_SECRET == <<"s", "3">>

\* The order fields of a complete call, and the mappings a caller may pass:
\* a complete or an empty mapping, changed in at most MaxEdits keys.
FullOrder ==
    [k \in {K_body, K_out_trade_no, K_total_fee, K_spbill_create_ip, K_notify_url,
            K_trade_type} |->
        IF k = K_body THEN SV(<<"b">>)
        ELSE IF k = K_out_trade_no THEN SV(<<"T">>)
        ELSE IF k = K_total_fee THEN SV(<<"1">>)
        ELSE IF k = K_spbill_create_ip THEN SV(<<"i">>)
        ELSE IF k = K_notify_url THEN SV(<<"u">>)
        ELSE SV(<<"J">>)]

EditKeys ==
    {K_appid, K_mch_id, K_nonce_str, K_body, K_out_trade_no, K_total_fee,
     K_spbill_create_ip, K_notify_url, K_trade_type, K_sign, K_attach}

EditValues == {SV(<<>>), IV(0), None, SV(<<"1">>), IV(1)}

Edits(o) ==
    {DelItem(o, k) : k \in EditKeys \cap DOMAIN o}
        \cup {SetItem(o, k, v) : k \in EditKeys, v \in EditValues}

RECURSIVE Edited(_, _)
Edited(o, n) ==
    IF n = 0 THEN {o}
    ELSE LET prev == Edited(o, n - 1) IN prev \cup UNION {Edits(q) : q \in prev}

OrderInfos == Edited(FullOrder, MaxEdits) \cup Edited(EmptyDict, MaxEdits)

\* The bodies the platform may answer with.
Responses ==
    { Open(K_xml) \o Open(K_body) \o <<"<", "!", "[", "C", "D", "A", "T", "A", "[">>
        \o <<"O", "K">> \o <<"]", "]", ">">> \o Close(K_body) \o Close(K_xml),
      Open(K_xml) \o Open(K_body) \o <<"O", "K">> \o Close(K_body) \o Close(K_xml) }

\* Lines 156-161: default_settings, and dict(default_settings, **order_info).
default_settings(n) ==
    [k \in {K_appid, K_mch_id, K_nonce_str} |->
        IF k = K_appid THEN SV(settings.APP_ID)
        ELSE IF k = K_mch_id THEN SV(settings.MCH_ID)
        ELSE SV(n)]

\* The caller builds the mapping it is going to pass: between two calls it
\* takes a fresh complete or empty mapping, or changes one key of its mapping.
Prepare ==
    /\ pc = "idle"
    /\ \E o \in {FullOrder, EmptyDict} \cup Edits(order_info) :
          /\ o \in OrderInfos
          /\ o # order_info
          /\ order_info' = o
    /\ UNCHANGED <<settings, global_access_token, pc, nonce, data, error, hashed, xml,
                   posts, response, result>>

\* Faulty variant: the merge is done in place, order_info.update(default_settings).
CallInPlace ==
    /\ pc = "idle"
    /\ \E n \in _get_random_code :
          /\ nonce' = n
          /\ data' = dict(default_settings(n), order_info)
          /\ order_info' = dict(default_settings(n), order_info)
    /\ pc' = "check"
    /\ UNCHANGED <<settings, global_access_token, error, hashed, xml, posts, response,
                   result>>

\* The caller invokes get_unifiedorder(order_info); lines 156-161.
Call ==
    /\ pc = "idle"
    /\ \E n \in _get_random_code :
          /\ nonce' = n
          /\ data' = dict(default_settings(n), order_info)
    /\ pc' = "check"
    /\ UNCHANGED <<settings, global_access_token, order_info, error, hashed, xml, posts,
                   response, result>>

\* Line 163: self._check_unifiedorder_params(data).
Check ==
    /\ pc = "check"
    /\ LET e == _check_unifiedorder_params(data)
       IN IF e # <<>> THEN error' = e /\ pc' = "error"
          ELSE error' = error /\ pc' = "sign"
    /\ UNCHANGED <<settings, global_access_token, order_info, nonce, data, hashed, xml,
                   posts, response, result>>

\* Faulty variant: the signature is computed before the mapping is validated.
SignUnchecked ==
    /\ pc \in {"check", "sign"}
    /\ \E ks \in IterOrders(data) :
          /\ hashed' = Append(hashed, SignString(data, ks, settings.MCH_SECRET))
          /\ data' = SetItem(data, K_sign, SV(_make_sign(data, ks, settings.MCH_SECRET)))
    /\ pc' = "xml"
    /\ UNCHANGED <<settings, global_access_token, order_info, nonce, error, xml, posts,
                   response, result>>

\* Faulty variant: the signature is computed after 'sign' is stored.
SignAfterStore ==
    /\ pc = "sign"
    /\ \E ks \in IterOrders(SetItem(data, K_sign, SV(<<>>))) :
          LET d == SetItem(data, K_sign, SV(<<>>))
          IN /\ hashed' = Append(hashed, SignString(d, ks, settings.MCH_SECRET))
             /\ data' = SetItem(data, K_sign, SV(_make_sign(d, ks, settings.MCH_SECRET)))
    /\ pc' = "xml"
    /\ UNCHANGED <<settings, global_access_token, order_info, nonce, error, xml, posts,
                   response, result>>

\* Line 165: data['sign'] = self._make_sign(data).
Sign ==
    /\ pc = "sign"
    /\ \E ks \in IterOrders(data) :
          /\ hashed' = Append(hashed, SignString(data, ks, settings.MCH_SECRET))
          /\ data' = SetItem(data, K_sign, SV(_make_sign(data, ks, settings.MCH_SECRET)))
    /\ pc' = "xml"
    /\ UNCHANGED <<settings, global_access_token, order_info, nonce, error, xml, posts,
                   response, result>>

\* Line 167: xml = self._make_xml(data).encode('utf-8').
MakeXml ==
    /\ pc = "xml"
    /\ \E it \in IterOrders(data) : xml' = _make_xml_dict(data, it)
    /\ pc' = "post"
    /\ UNCHANGED <<settings, global_access_token, order_info, nonce, data, error, hashed,
                   posts, response, result>>

\* Line 168: data = requests.post(url, data=xml).content.
Post ==
    /\ pc = "post"
    /\ posts' = Append(posts, xml)
    /\ \E r \in Responses : response' = r
    /\ pc' = "parse"
    /\ UNCHANGED <<settings, global_access_token, order_info, nonce, data, error, hashed,
                   xml, result>>

\* Line 170: return self._analysis_xml(data).
Parse ==
    /\ pc = "parse"
    /\ result' = _analysis_xml(response)
    /\ pc' = "done"
    /\ UNCHANGED <<settings, global_access_token, order_info, nonce, data, error, hashed,
                   xml, posts, response>>

\* The call has returned or raised: its locals are gone, the caller keeps
\* its order_info.
Return ==
    /\ pc \in {"done", "error"}
    /\ pc' = "idle"
    /\ nonce' = <<>>
    /\ data' = EmptyDict
    /\ error' = <<>>
    /\ hashed' = <<>>
    /\ xml' = <<>>
    /\ posts' = <<>>
    /\ response' = <<>>
    /\ result' = EmptyDict
    /\ UNCHANGED <<settings, global_access_token, order_info>>

\* __init__ (lines 17-20), before any call.
InitOrder ==
    /\ settings = [APP_ID |-> APP_ID, MCH_ID |-> MCH_ID, MCH_SECRET |-> MCH_SECRET]
    /\ global_access_token = EmptyDict
    /\ order_info = EmptyDict
    /\ pc = "idle"
    /\ nonce = <<>>
    /\ data = EmptyDict
    /\ error = <<>>
    /\ hashed = <<>>
    /\ xml = <<>>
    /\ posts = <<>>
    /\ response = <<>>
    /\ result = EmptyDict

InitSignIdle ==
    /\ sg_data = <<EmptyDict, EmptyDict>>
    /\ sg_keys = <<<<>>, <<>>>>
    /\ sg_secret = <<<<>>, <<>>>>
    /\ sg_hashed = <<<<>>, <<>>>>
    /\ sg_sign = <<<<>>, <<>>>>

InitParseIdle ==
    /\ ax_leaves = <<>>
    /\ ax_xml = <<>>
    /\ ax_result = EmptyDict
    /\ ax_done = FALSE

Init == InitOrder /\ InitSignIdle /\ InitParseIdle

Next ==
    \/ Prepare /\ UNCHANGED <<signVars, parseVars>>
    \/ Call /\ UNCHANGED <<signVars, parseVars>>
    \/ Check /\ UNCHANGED <<signVars, parseVars>>
    \/ Sign /\ UNCHANGED <<signVars, parseVars>>
    \/ MakeXml /\ UNCHANGED <<signVars, parseVars>>
    \/ Post /\ UNCHANGED <<signVars, parseVars>>
    \/ Parse /\ UNCHANGED <<signVars, parseVars>>
    \/ Return /\ UNCHANGED <<signVars, parseVars>>

Spec == Init /\ [][Next]_vars

(***************************************************************************)
(* _make_sign on two mappings, to compare their signatures.                *)
(***************************************************************************)
SgKeys == {K_appid, K_body, K_total_fee}
SgValues == {SV(<<"1">>), IV(1), SV(<<"2">>)}
SgSecrets == {MCH_SECRET, <<"k", "9">>}
SgMaps == UNION {[D -> SgValues] : D \in SUBSET SgKeys}

\* Two mappings over the same keys, each with the order its keys() come in,
\* and a secret for each.
InitSign ==
    /\ sg_data \in {p \in SgMaps \X SgMaps : DOMAIN p[1] = DOMAIN p[2]}
    /\ sg_keys \in IterOrders(sg_data[1]) \X IterOrders(sg_data[2])
    /\ sg_secret \in SgSecrets \X SgSecrets
    /\ sg_hashed = <<<<>>, <<>>>>
    /\ sg_sign = <<<<>>, <<>>>>

\* self._make_sign(sg_data[i]) with MCH_SECRET = sg_secret[i].
MakeSign(i) ==
    /\ sg_sign[i] = <<>>
    /\ sg_hashed' =
          [sg_hashed EXCEPT ![i] = SignString(sg_data[i], sg_keys[i], sg_secret[i])]
    /\ sg_sign' = [sg_sign EXCEPT ![i] = _make_sign(sg_data[i], sg_keys[i], sg_secret[i])]
    /\ UNCHANGED <<sg_data, sg_keys, sg_secret>>

NextSign == \E i \in 1..2 : MakeSign(i) /\ UNCHANGED <<orderVars, parseVars>>

InitSignSpec == InitOrder /\ InitSign /\ InitParseIdle

SpecSign == InitSignSpec /\ [][NextSign]_vars

(***************************************************************************)
(* _analysis_xml on a response document made of leaf elements.             *)
(***************************************************************************)
AxTags == {K_body, <<"i", "d">>}
AxTexts == {<<>>, <<"O", "K">>, <<"é">>, <<"a", "\n", "b">>}
AxLeaves == [tag : AxTags, text : AxTexts, wrapped : BOOLEAN]

\* The platform's leaf: <tag><![CDATA[text]]></tag>, or <tag>text</tag>.
EncodeLeaf(l) ==
    Open(l.tag)
        \o (IF l.wrapped
            THEN <<"<", "!", "[", "C", "D", "A", "T", "A", "[">> \o l.text
                    \o <<"]", "]", ">">>
            ELSE l.text)
        \o Close(l.tag)

EncodeDoc(ls) ==
    Open(K_xml) \o join(<<>>, [i \in 1..Len(ls) |-> EncodeLeaf(ls[i])]) \o Close(K_xml)

InitParse ==
    /\ ax_leaves \in UNION {[1..n -> AxLeaves] : n \in 0..MaxLeaves}
    /\ ax_xml = <<>>
    /\ ax_result = EmptyDict
    /\ ax_done = FALSE

\* The platform answers with the document of the leaves.
Respond ==
    /\ ax_xml = <<>>
    /\ ax_xml' = EncodeDoc(ax_leaves)
    /\ UNCHANGED <<ax_leaves, ax_result, ax_done>>

\* self._analysis_xml(ax_xml)
AnalysisXml ==
    /\ ax_xml # <<>>
    /\ ~ax_done
    /\ ax_result' = _analysis_xml(ax_xml)
    /\ ax_done' = TRUE
    /\ UNCHANGED <<ax_leaves, ax_xml>>

NextParse ==
    \/ Respond /\ UNCHANGED <<orderVars, signVars>>
    \/ AnalysisXml /\ UNCHANGED <<orderVars, signVars>>

InitXmlSpec == InitOrder /\ InitSignIdle /\ InitParse

SpecXml == InitXmlSpec /\ [][NextParse]_vars

(***************************************************************************)
(* The properties.                                                         *)
(***************************************************************************)
\* The nine required keys, in the order the contract lists them.
NineRequired ==
    <<K_appid, K_mch_id, K_nonce_str, K_body, K_out_trade_no, K_total_fee,
      K_spbill_create_ip, K_notify_url, K_trade_type>>

\* Key k is absent from d, or its value is the empty string, 0 or None.
Missing(d, k) == k \notin DOMAIN d \/ d[k] \in {SV(<<>>), IV(0), None}

\* The elements of a set of keys in ascending lexical order.
RECURSIVE Ascending(_)
Ascending(S) ==
    IF S = {} THEN <<>>
    ELSE LET m == CHOOSE k \in S : \A j \in S \ {k} : StrLess(k, j)
         IN <<m>> \o Ascending(S \ {m})

\* k1=v1&k2=v2&...&key=secret over the fields of d other than sign.
Canonical(d, secret) ==
    LET ks == Ascending((DOMAIN d) \ {K_sign})
    IN join(<<"&">>,
            [i \in 1..Len(ks) |-> ks[i] \o <<"=">> \o Fmt(d[ks[i]])]
                \o << <<"k", "e", "y", "=">> \o secret >>)

\* The call is past line 161: the merged mapping exists.
InCall == pc # "idle"

\* C1: in every call the merged mapping carries appid = APP_ID, mch_id =
\* MCH_ID and nonce_str = the generated nonce, whatever the caller supplied.
C1_SystemFieldsNotOverridden ==
    InCall =>
        /\ data[K_appid] = SV(settings.APP_ID)
        /\ data[K_mch_id] = SV(settings.MCH_ID)
        /\ data[K_nonce_str] = SV(nonce)

\* C2: validation fails exactly when one of the nine required keys is absent
\* or falsy, and the error names the first such key in the required order;
\* when all nine are present and truthy it raises nothing.
C2_ValidationNamesFirstMissing ==
    /\ pc = "error" =>
          \E i \in 1..Len(NineRequired) :
              /\ error = NineRequired[i]
              /\ Missing(data, NineRequired[i])
              /\ \A j \in 1..(i - 1) : ~Missing(data, NineRequired[j])
    /\ pc \in {"sign", "xml", "post", "parse", "done"} =>
          /\ error = <<>>
          /\ \A i \in 1..Len(NineRequired) : ~Missing(data, NineRequired[i])

C2_Witness ==
    /\ pc = "error"
    /\ error = K_body
    /\ Cardinality({i \in 1..Len(NineRequired) : Missing(data, NineRequired[i])}) > 1

\* C3: a failed validation ends the call with no signature computed and no
\* request issued; a signature is computed, a document built and a request
\* issued only for a mapping that passed validation, and a request only for a
\* mapping that carries its sign.
C3_ValidationBeforeSignAndPost ==
    /\ pc = "error" => hashed = <<>> /\ xml = <<>> /\ posts = <<>>
    /\ pc = "check" => hashed = <<>> /\ xml = <<>> /\ posts = <<>>
    /\ (hashed # <<>> \/ xml # <<>> \/ posts # <<>>) =>
          \A i \in 1..Len(NineRequired) : ~Missing(data, NineRequired[i])
    /\ posts # <<>> =>
          /\ Len(hashed) = 1
          /\ K_sign \in DOMAIN data
          /\ data[K_sign] = SV(md5_hexdigest_upper(hashed[1]))

C3_Witness == pc = "error" /\ error = K_total_fee /\ K_total_fee \in DOMAIN data

\* C4: the text that is hashed is the key=value pairs of all fields except
\* sign, in ascending key order, joined by &, followed by &key=<secret>.
C4_HashedTextExcludesSign ==
    hashed # <<>> => hashed[1] = Canonical(data, settings.MCH_SECRET)

\* One element per key of d, in the order it: <key>value</key>.
OneChildPerKey(d, it) ==
    Open(K_xml)
        \o join(<<>>, [i \in 1..Len(it) |-> Open(it[i]) \o Fmt(d[it[i]]) \o Close(it[i])])
        \o Close(K_xml)

\* C5: the document is the root xml with one child per key of the mapping,
\* the key as its tag and the key's value as its content.
C5_DocumentHasOneChildPerKey ==
    xml # <<>> => \E it \in IterOrders(data) : xml = OneChildPerKey(data, it)

\* The two mappings differ in the value of exactly one key.
OneFieldDiffers ==
    Cardinality({k \in DOMAIN sg_data[1] : sg_data[1][k] # sg_data[2][k]}) = 1

\* The two mappings differ in one key, whose values also render differently.
OneFieldRendersDifferently ==
    /\ OneFieldDiffers
    /\ \A k \in DOMAIN sg_data[1] :
          sg_data[1][k] # sg_data[2][k] => Fmt(sg_data[1][k]) # Fmt(sg_data[2][k])

BothSigned == sg_sign[1] # <<>> /\ sg_sign[2] # <<>>

SameSignature == sg_hashed[1] = sg_hashed[2] /\ sg_sign[1] = sg_sign[2]
OtherSignature == sg_hashed[1] # sg_hashed[2] /\ sg_sign[1] # sg_sign[2]

\* C6 as stated: equal fields and secret give equal signatures, in whatever
\* order the keys are iterated; changing the value of one field, or the
\* secret, changes the hashed text and the signature.
C6_AnyValueChangeChangesSignature ==
    BothSigned =>
        /\ (sg_data[1] = sg_data[2] /\ sg_secret[1] = sg_secret[2]) => SameSignature
        /\ (OneFieldDiffers /\ sg_secret[1] = sg_secret[2]) => OtherSignature
        /\ (sg_data[1] = sg_data[2] /\ sg_secret[1] # sg_secret[2]) => OtherSignature

\* C6 as amended: equal fields and secret give equal signatures, in whatever
\* order the keys are iterated; changing the value of one field to a value
\* with another '%s' rendering, or changing the secret, changes the hashed
\* text and the signature.
C6_RenderedChangeChangesSignature ==
    BothSigned =>
        /\ (sg_data[1] = sg_data[2] /\ sg_secret[1] = sg_secret[2]) => SameSignature
        /\ (OneFieldRendersDifferently /\ sg_secret[1] = sg_secret[2]) => OtherSignature
        /\ (sg_data[1] = sg_data[2] /\ sg_secret[1] # sg_secret[2]) => OtherSignature

C6_Witness ==
    /\ BothSigned
    /\ OneFieldRendersDifferently
    /\ sg_secret[1] = sg_secret[2]
    /\ sg_keys[1] # sg_keys[2]
    /\ Cardinality(DOMAIN sg_data[1]) = 3

\* The leaves carrying the literal-text marker, and the mapping they spell.
WrappedLeaves == {i \in 1..Len(ax_leaves) : ax_leaves[i].wrapped}

DistinctTags(I) == \A i, j \in I : ax_leaves[i].tag = ax_leaves[j].tag => i = j

MappingOf(I) ==
    [k \in {ax_leaves[i].tag : i \in I} |->
        ax_leaves[CHOOSE i \in I : ax_leaves[i].tag = k].text]

\* C7: a flat mapping of distinct tags, each entry written
\* <tag><![CDATA[text]]></tag>, parses back to the same keys and values.
C7_RoundTrip ==
    (ax_done /\ WrappedLeaves = 1..Len(ax_leaves) /\ DistinctTags(WrappedLeaves)) =>
        ax_result = MappingOf(1..Len(ax_leaves))

\* C8: of a document of wrapped and plain leaves in any order, the result is
\* exactly the mapping of the wrapped leaves.
C8_OnlyWrappedLeavesCaptured ==
    (ax_done /\ DistinctTags(WrappedLeaves)) => ax_result = MappingOf(WrappedLeaves)

\* C9: no step of a call changes the caller's order_info, the configuration
\* or the global_access_token cache.
C9_CallLeavesCallerStateUnchanged ==
    [][(pc # "idle" \/ pc' # "idle") =>
          /\ order_info' = order_info
          /\ settings' = settings
          /\ global_access_token' = global_access_token]_vars

C9_Witness ==
    /\ pc = "done"
    /\ order_info = FullOrder
    /\ K_sign \in DOMAIN data
    /\ K_sign \notin DOMAIN order_info

\* C10: in a call whose order_info has no sign, no request is issued before
\* the signed document is built and exactly one afterwards, and the document
\* sent serialises the validated mapping plus the one field sign, the
\* signature of the validated mapping under the configured secret.
C10_SentIsValidatedPlusSign ==
    K_sign \notin DOMAIN order_info =>
        /\ pc \in {"check", "sign", "xml", "post", "error"} => posts = <<>>
        /\ pc \in {"parse", "done"} =>
              LET validated == dict(default_settings(nonce), order_info)
              IN /\ Len(posts) = 1
                 /\ \A i \in 1..Len(NineRequired) : ~Missing(validated, NineRequired[i])
                 /\ DOMAIN data = (DOMAIN validated) \cup {K_sign}
                 /\ \A k \in DOMAIN validated : data[k] = validated[k]
                 /\ data[K_sign] =
                       SV(md5_hexdigest_upper(Canonical(validated, settings.MCH_SECRET)))
                 /\ \E it \in IterOrders(data) : posts[1] = _make_xml_dict(data, it)

C10_Witness ==
    /\ pc = "done"
    /\ K_sign \notin DOMAIN order_info
    /\ K_attach \in DOMAIN order_info
    /\ Len(posts) = 1

====
